---- MODULE Spec2Model ----
(***************************************************************************)
(* Model of src/prepare_data.py: one invocation of main() after another    *)
(* against the same output directory.  A file name is the sequence of its  *)
(* characters; a ratio r is held as the integer 10*r (0.8 is 8).           *)
(* Filesystem operations are taken to succeed; the external tools (ffmpeg, *)
(* colmap) are the environment and may succeed, exit non-zero or be        *)
(* missing at every invocation.                                            *)
(***************************************************************************)
EXTENDS Integers, Sequences, FiniteSets, TLC

VARIABLES
    run,        \* number of the current invocation of main()
    pc,         \* position of the current invocation
    args,       \* parsed command line (argparse namespace)
    srcFiles,   \* direct entries of the photo directory args.input
    rng,        \* state of the process-wide random generator
    dirs,       \* directories that exist under the output directory
    frameFiles, \* files in extracted_frames/
    inputFiles, \* files in input/
    listFiles,  \* split-list files at the root: file name -> content
    sparse0,    \* distorted/sparse/0 exists
    listing,    \* what os.listdir returned to split_images
    splits,     \* the value split_images returned
    copied,     \* files copied into input/ by this invocation
    log,        \* <<step, result>> of every step of this invocation, in order
    status,     \* how this invocation ended ("running" until then)
    failure,    \* the statement whose exception ended the invocation
    seen        \* <<listing, ratios, splits>> of the last two split_images calls

vars == <<run, pc, args, srcFiles, rng, dirs, frameFiles, inputFiles,
          listFiles, sparse0, listing, splits, copied, log, status, failure,
          seen>>

----------------------------------------------------------------------------
(* Bounds *)

\* invocations of main() against the same output directory
MaxRuns == 2
\* frames one ffmpeg invocation may write
MaxFrames == 1
\* frames in the directory of a direct call of split_images
MaxImages == 4

----------------------------------------------------------------------------
(* Strings as sequences of characters *)

UpperChars == <<"A","B","C","D","E","F","G","H","I","J","K","L","M",
                "N","O","P","Q","R","S","T","U","V","W","X","Y","Z">>
LowerChars == <<"a","b","c","d","e","f","g","h","i","j","k","l","m",
                "n","o","p","q","r","s","t","u","v","w","x","y","z">>

LowerChar(c) ==
    IF \E i \in 1..Len(UpperChars) : UpperChars[i] = c
    THEN LowerChars[CHOOSE i \in 1..Len(UpperChars) : UpperChars[i] = c]
    ELSE c

\* str.lower()
Lower(s) == [i \in 1..Len(s) |-> LowerChar(s[i])]

\* str.endswith(suf)
EndsWith(s, suf) ==
    /\ Len(suf) <= Len(s)
    /\ SubSeq(s, Len(s) - Len(suf) + 1, Len(s)) = suf

\* str.rfind('.') as a 1-based index, 0 when there is no dot
RFindDot(s) ==
    IF \E i \in 1..Len(s) : s[i] = "."
    THEN CHOOSE i \in 1..Len(s) :
            s[i] = "." /\ \A j \in (i+1)..Len(s) : s[j] # "."
    ELSE 0

\* pathlib.PurePath.suffix of a final path component
Suffix(s) ==
    LET i == RFindDot(s)
    IN  IF 1 < i /\ i < Len(s) THEN SubSeq(s, i, Len(s)) ELSE <<>>

ExtPng == <<".","p","n","g">>
ExtJpg == <<".","j","p","g">>
ExtJpeg == <<".","j","p","e","g">>
ImageExts == {ExtPng, ExtJpg, ExtJpeg}

\* line 26: f.lower().endswith(('.png', '.jpg', '.jpeg'))
IsListedImage(f) == \E e \in ImageExts : EndsWith(Lower(f), e)

DigitChars == <<"0","1","2","3","4","5","6","7","8","9">>

\* '%04d' of ffmpeg's output pattern
Pad4(i) ==
    <<DigitChars[((i \div 1000) % 10) + 1], DigitChars[((i \div 100) % 10) + 1],
      DigitChars[((i \div 10) % 10) + 1], DigitChars[(i % 10) + 1]>>

\* line 18: frame_%04d.jpg
FrameName(i) == <<"f","r","a","m","e","_">> \o Pad4(i) \o ExtJpg

NameA == <<"a",".","j","p","g">>
NameB == <<"b",".","P","N","G">>
NameC == <<"c",".","t","x","t">>
NameD == <<"d",".","b","m","p">>

\* a subdirectory of the photo directory and an image inside it
NameSub == <<"s","u","b">>
NameSubE == <<"s","u","b","/","e",".","j","p","g">>

\* the photo directories args.input may name, each by the paths below it
SourceDirs ==
    { {}, {NameA}, {NameC}, {NameA, NameB}, {NameA, NameB, NameC, NameD},
      {NameA, NameSub, NameSubE} }

\* a path with a single component
IsDirectEntry(p) == \A i \in 1..Len(p) : p[i] # "/"

\* Path.name: the final component of a path
BaseName(p) ==
    IF IsDirectEntry(p) THEN p
    ELSE LET i == CHOOSE k \in 1..Len(p) :
                    p[k] = "/" /\ \A j \in (k+1)..Len(p) : p[j] # "/"
         IN  SubSeq(p, i + 1, Len(p))

\* Path.glob('*'): the direct entries of a directory
Glob(S) == {p \in S : IsDirectEntry(p)}

\* variant: the suffix is compared without lower()
IsCopiedImageCaseSensitive(f) == Suffix(f) \in ImageExts

\* line 63: img.suffix.lower() in ['.png', '.jpg', '.jpeg']
IsCopiedImage(f) == Lower(Suffix(f)) \in ImageExts

\* '\n'.join(img_list)
RECURSIVE JoinLines(_)
JoinLines(l) ==
    IF Len(l) = 0 THEN <<>>
    ELSE IF Len(l) = 1 THEN l[1]
    ELSE l[1] \o <<"\n">> \o JoinLines(Tail(l))

\* number of lines of a split-list file
LineCount(c) ==
    IF Len(c) = 0 THEN 0
    ELSE 1 + Cardinality({i \in 1..Len(c) : c[i] = "\n"})

----------------------------------------------------------------------------
(* split_images *)

\* every arrangement of the members of S
RECURSIVE Orders(_)
Orders(S) ==
    IF S = {} THEN {<<>>}
    ELSE UNION { {<<x>> \o q : q \in Orders(S \ {x})} : x \in S }

\* os.listdir returns the entries "in arbitrary order": any arrangement
ListdirOrders(S) == Orders(S)

\* random.seed(42); random.shuffle(list(range(1, n+1))), for each n
Shuffle42 ==
    << <<1>>,
       <<2, 1>>,
       <<2, 1, 3>>,
       <<3, 2, 4, 1>>,
       <<4, 2, 3, 5, 1>>,
       <<4, 2, 3, 5, 1, 6>>,
       <<2, 4, 5, 3, 7, 1, 6>>,
       <<4, 5, 7, 8, 3, 6, 1, 2>>,
       <<4, 7, 8, 5, 9, 3, 6, 1, 2>>,
       <<8, 4, 3, 9, 6, 7, 10, 5, 1, 2>>,
       <<8, 4, 3, 9, 6, 7, 10, 5, 1, 2, 11>>,
       <<8, 6, 3, 9, 10, 7, 12, 4, 5, 1, 2, 11>> >>

\* random.shuffle(images) right after random.seed(42)
Shuffled(images) ==
    IF Len(images) = 0 THEN <<>>
    ELSE [i \in 1..Len(images) |-> images[Shuffle42[Len(images)][i]]]

\* variant: round(total * ratio) instead of int(total * ratio)
IntMulRounded(total, r) ==
    LET p == total * r
    IN  IF p >= 0 THEN (p + 5) \div 10 ELSE -((5 - p) \div 10)

\* int(total * ratio), ratio = r/10: truncation towards zero
IntMul(total, r) ==
    LET p == total * r
    IN  IF p >= 0 THEN p \div 10 ELSE -((-p) \div 10)

\* a slice bound as Python normalises it
ClampIndex(i, n) ==
    LET k == IF i < 0 THEN i + n ELSE i
    IN  IF k < 0 THEN 0 ELSE IF k > n THEN n ELSE k

\* s[lo:hi]
PySlice(s, lo, hi) ==
    LET a == ClampIndex(lo, Len(s))
        b == ClampIndex(hi, Len(s))
    IN  IF a < b THEN SubSeq(s, a + 1, b) ELSE <<>>

\* s[:hi] and s[lo:]
PySliceTo(s, hi) == PySlice(s, 0, hi)
PySliceFrom(s, lo) == PySlice(s, lo, Len(s))

TrainEnd(total, train_ratio) == IntMul(total, train_ratio)
ValEnd(total, train_ratio, val_ratio) ==
    TrainEnd(total, train_ratio) + IntMul(total, val_ratio)

\* variant: the val slice starts one past train_end
CutOffByOne(images, train_ratio, val_ratio) ==
    LET total == Len(images)
        train_end == TrainEnd(total, train_ratio)
        val_end == ValEnd(total, train_ratio, val_ratio)
    IN  [train |-> PySliceTo(images, train_end),
         val |-> PySlice(images, train_end + 1, val_end),
         test |-> PySliceFrom(images, val_end)]

\* lines 29-37 applied to the shuffled list
Cut(images, train_ratio, val_ratio) ==
    LET total == Len(images)
        train_end == TrainEnd(total, train_ratio)
        val_end == ValEnd(total, train_ratio, val_ratio)
    IN  [train |-> PySliceTo(images, train_end),
         val |-> PySlice(images, train_end, val_end),
         test |-> PySliceFrom(images, val_end)]

\* what random.shuffle may leave: one arrangement right after seed(42), any
\* arrangement from a generator seeded by the operating system
ShuffleOutcomes(images) ==
    IF rng = "seeded" THEN {Shuffled(images)}
    ELSE Orders({images[i] : i \in 1..Len(images)})

\* variant: the split is taken over the images copied by this run only
split_imagesOfCopied(train_ratio, val_ratio) ==
    \E order \in ListdirOrders({f \in copied : IsListedImage(f)}) :
      \E images \in ShuffleOutcomes(order) :
        /\ listing' = order
        /\ splits' = Cut(images, train_ratio, val_ratio)
        /\ seen' = Append(IF Len(seen) = 2 THEN Tail(seen) ELSE seen,
                          <<order, train_ratio, val_ratio,
                            Cut(images, train_ratio, val_ratio)>>)
        /\ rng' = "advanced"

\* split_images(image_dir, train_ratio, val_ratio) on input/
split_images(train_ratio, val_ratio) ==
    \E order \in ListdirOrders({f \in inputFiles : IsListedImage(f)}) :
      \E images \in ShuffleOutcomes(order) :
        /\ listing' = order
        /\ splits' = Cut(images, train_ratio, val_ratio)
        /\ seen' = Append(IF Len(seen) = 2 THEN Tail(seen) ELSE seen,
                          <<order, train_ratio, val_ratio,
                            Cut(images, train_ratio, val_ratio)>>)
        /\ rng' = "advanced"

----------------------------------------------------------------------------
(* main, create_colmap_structure, run_colmap_pipeline *)

ToolResults == {"ok", "nonzero", "notfound"}

\* the exception subprocess.run(cmd, check=True) raises
Raised(res) ==
    IF res = "nonzero" THEN "CalledProcessError" ELSE "FileNotFoundError"

\* the (train_ratio, val_ratio) pairs given on the command line, in tenths
RatioPairs == {<<8, 1>>, <<5, 5>>}

\* parser defaults and split_images defaults (0.8, 0.1), in tenths
DefaultTrainRatio == 8
DefaultValRatio == 1

NoArgs ==
    [type |-> "photos", input_kind |-> "missing", train_ratio |-> DefaultTrainRatio,
     val_ratio |-> DefaultValRatio, skip_colmap |-> FALSE,
     skip_dependency_check |-> FALSE]

NoSplits == [train |-> <<>>, val |-> <<>>, test |-> <<>>]

ListNames == <<"train_list.txt", "val_list.txt", "test_list.txt">>

Stages == <<"feature_extractor", "exhaustive_matcher", "mapper", "model_converter">>

Init ==
    /\ run = 1
    /\ pc = "parse_args"
    /\ args = NoArgs
    /\ srcFiles = {}
    /\ rng = "unseeded"
    /\ dirs = {}
    /\ frameFiles = {}
    /\ inputFiles = {}
    /\ listFiles = [f \in {} |-> <<>>]
    /\ sparse0 = FALSE
    /\ listing = <<>>
    /\ splits = NoSplits
    /\ copied = {}
    /\ log = <<>>
    /\ status = "running"
    /\ failure = ""
    /\ seen = <<>>

\* line 136: the command line
ParseArgs ==
    /\ pc = "parse_args"
    /\ \E type \in {"video", "photos"}, kind \in {"missing", "file", "dir"},
          r \in RatioPairs, sc \in BOOLEAN, sd \in BOOLEAN,
          src \in SourceDirs :
        /\ src # {} => (type = "photos" /\ kind = "dir")
        /\ args' = [type |-> type, input_kind |-> kind, train_ratio |-> r[1],
                    val_ratio |-> r[2], skip_colmap |-> sc,
                    skip_dependency_check |-> sd]
        /\ srcFiles' = src
    /\ pc' = "dep_ffmpeg"
    /\ UNCHANGED <<run, rng, dirs, frameFiles, inputFiles, listFiles, sparse0,
                   listing, splits, copied, log, status, failure, seen>>

\* a dependency probe: any failure prints and calls sys.exit(1)
Probe(cmd, next) ==
    \E res \in ToolResults :
        /\ log' = Append(log, <<cmd, res>>)
        /\ IF res = "ok"
           THEN pc' = next /\ UNCHANGED <<status, failure>>
           ELSE pc' = "exited" /\ status' = "exit1" /\ failure' = cmd

\* lines 138-145
CheckFfmpeg ==
    /\ pc = "dep_ffmpeg"
    /\ IF ~args.skip_dependency_check /\ args.type = "video"
       THEN Probe("ffmpeg -version", "dep_colmap")
       ELSE pc' = "dep_colmap" /\ UNCHANGED <<log, status, failure>>
    /\ UNCHANGED <<run, args, srcFiles, rng, dirs, frameFiles, inputFiles,
                   listFiles, sparse0, listing, splits, copied, seen>>

\* lines 138, 147-153
CheckColmap ==
    /\ pc = "dep_colmap"
    /\ IF ~args.skip_dependency_check /\ ~args.skip_colmap
       THEN Probe("colmap -h", "seed")
       ELSE pc' = "seed" /\ UNCHANGED <<log, status, failure>>
    /\ UNCHANGED <<run, args, srcFiles, rng, dirs, frameFiles, inputFiles,
                   listFiles, sparse0, listing, splits, copied, seen>>

\* variant: main never seeds the generator
SeedRandomMissing ==
    /\ pc = "seed"
    /\ pc' = "validate"
    /\ UNCHANGED <<run, args, srcFiles, rng, dirs, frameFiles, inputFiles,
                   listFiles, sparse0, listing, splits, copied, log, status,
                   failure, seen>>

\* line 155
SeedRandom ==
    /\ pc = "seed"
    /\ rng' = "seeded"
    /\ pc' = "validate"
    /\ UNCHANGED <<run, args, srcFiles, dirs, frameFiles, inputFiles, listFiles,
                   sparse0, listing, splits, copied, log, status, failure, seen>>

\* variant: os.path.exists for both input types
InputExists == args.input_kind # "missing"

\* lines 157-162: os.path.isfile / os.path.isdir of args.input
InputOk ==
    IF args.type = "video" THEN args.input_kind = "file"
    ELSE args.input_kind = "dir"

ValidateInput ==
    /\ pc = "validate"
    /\ IF InputOk
       THEN pc' = "layout" /\ UNCHANGED <<status, failure>>
       ELSE pc' = "exited" /\ status' = "ValueError" /\ failure' = "input"
    /\ UNCHANGED <<run, args, srcFiles, rng, dirs, frameFiles, inputFiles,
                   listFiles, sparse0, listing, splits, copied, log, seen>>

\* lines 41-52: the mkdir calls, all with exist_ok=True
LayoutDirs == {"base", "input", "distorted", "distorted/sparse"}

\* variant: the is_video test inverted
BuildLayoutInverted ==
    /\ pc = "layout"
    /\ dirs' = dirs \cup LayoutDirs
    /\ log' = Append(log, <<"mkdir", "ok">>)
    /\ pc' = IF args.type = "video" THEN "copy" ELSE "frames"
    /\ UNCHANGED <<run, args, srcFiles, rng, frameFiles, inputFiles, listFiles,
                   sparse0, listing, splits, copied, status, failure, seen>>

\* the order of the mkdir calls: lines 42, 45, 51, 52
LayoutOrder == <<"base", "input", "distorted", "distorted/sparse">>

\* variant: mkdir() without exist_ok=True
ExistOkOmitted == FALSE

\* the exist_ok argument of every mkdir call of lines 42-52
ExistOk == TRUE

\* Path.mkdir(exist_ok=...) raises FileExistsError on an existing directory
\* unless exist_ok is set
MkdirRaises(d) == d \in dirs /\ ~ExistOk

BuildLayout ==
    /\ pc = "layout"
    /\ IF \E i \in 1..Len(LayoutOrder) : MkdirRaises(LayoutOrder[i])
       THEN LET first == CHOOSE i \in 1..Len(LayoutOrder) :
                            /\ MkdirRaises(LayoutOrder[i])
                            /\ \A j \in 1..(i-1) : ~MkdirRaises(LayoutOrder[j])
            IN  /\ dirs' = dirs \cup {LayoutOrder[j] : j \in 1..(first-1)}
                /\ log' = Append(log, <<"mkdir", "exists">>)
                /\ pc' = "exited"
                /\ status' = "FileExistsError"
                /\ failure' = "mkdir"
       ELSE /\ dirs' = dirs \cup LayoutDirs
            /\ log' = Append(log, <<"mkdir", "ok">>)
            /\ pc' = IF args.type = "video" THEN "frames" ELSE "copy"
            /\ UNCHANGED <<status, failure>>
    /\ UNCHANGED <<run, args, srcFiles, rng, frameFiles, inputFiles, listFiles,
                   sparse0, listing, splits, copied, seen>>

\* variant: subprocess.run(cmd) without check=True
RunToolUnchecked(cmd, res, next) ==
    /\ log' = Append(log, <<cmd, res>>)
    /\ pc' = next
    /\ UNCHANGED <<status, failure>>

\* subprocess.run(cmd, check=True): a failure raises out of main
RunTool(cmd, res, next) ==
    /\ log' = Append(log, <<cmd, res>>)
    /\ IF res = "ok"
       THEN pc' = next /\ UNCHANGED <<status, failure>>
       ELSE pc' = "exited" /\ status' = Raised(res) /\ failure' = cmd

FramesUpTo(k) == {FrameName(i) : i \in 1..k}

\* variant: a failed ffmpeg is caught and the run goes on
ExtractFramesUnchecked ==
    /\ pc = "frames"
    /\ dirs' = dirs \cup {"extracted_frames"}
    /\ \E res \in ToolResults :
        /\ log' = Append(log, <<"ffmpeg", res>>)
        /\ pc' = "copy"
        /\ IF res = "notfound"
           THEN frameFiles' = frameFiles
           ELSE \E k \in 0..MaxFrames : frameFiles' = frameFiles \cup FramesUpTo(k)
    /\ UNCHANGED <<run, args, srcFiles, rng, inputFiles, listFiles, sparse0,
                   listing, splits, copied, status, failure, seen>>

\* lines 54-57 and 10-22: ffmpeg writes frame_0001.jpg, frame_0002.jpg, ...;
\* a run that exits non-zero may have written some frames before it failed
ExtractFrames ==
    /\ pc = "frames"
    /\ dirs' = dirs \cup {"extracted_frames"}
    /\ \E res \in ToolResults :
        /\ RunTool("ffmpeg", res, "copy")
        /\ IF res = "notfound"
           THEN frameFiles' = frameFiles
           ELSE \E k \in 0..MaxFrames : frameFiles' = frameFiles \cup FramesUpTo(k)
    /\ UNCHANGED <<run, args, srcFiles, rng, inputFiles, listFiles, sparse0,
                   listing, splits, copied, seen>>

\* lines 57, 59: the directory the images are collected from
SourceImages == IF args.type = "video" THEN frameFiles ELSE srcFiles

\* lines 62-63: the entries the loop copies
CollectedImages == {img \in Glob(SourceImages) : IsCopiedImage(BaseName(img))}

\* lines 61-64
CopyImages ==
    /\ pc = "copy"
    /\ copied' = {BaseName(img) : img \in CollectedImages}
    /\ inputFiles' = inputFiles \cup {BaseName(img) : img \in CollectedImages}
    /\ log' = Append(log, <<"copy", "ok">>)
    /\ pc' = "split"
    /\ UNCHANGED <<run, args, srcFiles, rng, dirs, frameFiles, listFiles,
                   sparse0, listing, splits, status, failure, seen>>

\* line 66: splits = split_images(str(input_dir))
SplitImages ==
    /\ pc = "split"
    /\ split_images(DefaultTrainRatio, DefaultValRatio)
    /\ log' = Append(log, <<"split", "ok">>)
    /\ pc' = "write"
    /\ UNCHANGED <<run, args, srcFiles, dirs, frameFiles, inputFiles, listFiles,
                   sparse0, copied, status, failure>>

\* variant: a list file is written only for a non-empty subset
WrittenListsSkipEmpty(s) ==
    LET content(f) == IF f = ListNames[1] THEN JoinLines(s.train)
                      ELSE IF f = ListNames[2] THEN JoinLines(s.val)
                      ELSE JoinLines(s.test)
        written == {f \in {ListNames[i] : i \in 1..3} : content(f) # <<>>}
    IN  [f \in written \cup DOMAIN listFiles |->
            IF f \in written THEN content(f) ELSE listFiles[f]]

\* lines 68-70: open(..., 'w') creates or truncates each list file
WrittenLists(s) ==
    [f \in {ListNames[i] : i \in 1..3} |->
        IF f = ListNames[1] THEN JoinLines(s.train)
        ELSE IF f = ListNames[2] THEN JoinLines(s.val)
        ELSE JoinLines(s.test)]

\* variant: run_colmap is not consulted
WriteSplitListsThenColmap ==
    /\ pc = "write"
    /\ listFiles' = WrittenLists(splits)
    /\ log' = log \o [i \in 1..3 |-> <<ListNames[i], "ok">>]
    /\ pc' = "feature_extractor"
    /\ UNCHANGED <<run, args, srcFiles, rng, dirs, frameFiles, inputFiles,
                   sparse0, listing, splits, copied, status, failure, seen>>

\* lines 68-74
WriteSplitLists ==
    /\ pc = "write"
    /\ listFiles' = WrittenLists(splits)
    /\ log' = log \o [i \in 1..3 |-> <<ListNames[i], "ok">>]
    /\ pc' = IF ~args.skip_colmap THEN "feature_extractor" ELSE "ready"
    /\ UNCHANGED <<run, args, srcFiles, rng, dirs, frameFiles, inputFiles,
                   sparse0, listing, splits, copied, status, failure, seen>>

\* variant: feature extraction hands over to the mapper
FeatureExtractionThenMapper ==
    /\ pc = "feature_extractor"
    /\ \E res \in ToolResults : RunTool(Stages[1], res, "mapper")
    /\ UNCHANGED <<run, args, srcFiles, rng, dirs, frameFiles, inputFiles,
                   listFiles, sparse0, listing, splits, copied, seen>>

\* variant: a failed extraction removes the list files before raising
FeatureExtractionWithCleanup ==
    /\ pc = "feature_extractor"
    /\ \E res \in ToolResults :
        /\ RunTool(Stages[1], res, "exhaustive_matcher")
        /\ listFiles' = IF res = "ok" THEN listFiles ELSE [f \in {} |-> <<>>]
    /\ UNCHANGED <<run, args, srcFiles, rng, dirs, frameFiles, inputFiles,
                   sparse0, listing, splits, copied, seen>>

\* lines 83-92
FeatureExtraction ==
    /\ pc = "feature_extractor"
    /\ \E res \in ToolResults : RunTool(Stages[1], res, "exhaustive_matcher")
    /\ UNCHANGED <<run, args, srcFiles, rng, dirs, frameFiles, inputFiles,
                   listFiles, sparse0, listing, splits, copied, seen>>

\* lines 94-100
FeatureMatching ==
    /\ pc = "exhaustive_matcher"
    /\ \E res \in ToolResults : RunTool(Stages[2], res, "mapper")
    /\ UNCHANGED <<run, args, srcFiles, rng, dirs, frameFiles, inputFiles,
                   listFiles, sparse0, listing, splits, copied, seen>>

\* lines 102-109: a mapper that ran, whether it exits 0 or not, may or may
\* not have written a model 0; nothing removes one that is there
SparseReconstruction ==
    /\ pc = "mapper"
    /\ \E res \in ToolResults :
        /\ RunTool(Stages[3], res, "model_converter")
        /\ IF res = "notfound"
           THEN sparse0' = sparse0
           ELSE \E produced \in BOOLEAN : sparse0' = (sparse0 \/ produced)
    /\ UNCHANGED <<run, args, srcFiles, rng, dirs, frameFiles, inputFiles,
                   listFiles, listing, splits, copied, seen>>

\* variant: conversion without the existence test
ModelDirAssumed == TRUE

\* line 112: model_dir.exists()
ModelDirExists == sparse0

\* lines 111-120
ModelConversion ==
    /\ pc = "model_converter"
    /\ IF ModelDirExists
       THEN \E res \in ToolResults : RunTool(Stages[4], res, "ready")
       ELSE pc' = "ready" /\ UNCHANGED <<log, status, failure>>
    /\ UNCHANGED <<run, args, srcFiles, rng, dirs, frameFiles, inputFiles,
                   listFiles, sparse0, listing, splits, copied, seen>>

\* lines 122, 77-78, 170: the invocation returns
Finish ==
    /\ pc = "ready"
    /\ status' = "done"
    /\ pc' = "exited"
    /\ UNCHANGED <<run, args, srcFiles, rng, dirs, frameFiles, inputFiles,
                   listFiles, sparse0, listing, splits, copied, log, failure, seen>>

\* lines 173-174: the script is started again on the same output directory
NewRun ==
    /\ pc = "exited"
    /\ run < MaxRuns
    /\ run' = run + 1
    /\ pc' = "parse_args"
    /\ args' = NoArgs
    /\ srcFiles' = {}
    /\ rng' = "unseeded"
    /\ listing' = <<>>
    /\ splits' = NoSplits
    /\ copied' = {}
    /\ log' = <<>>
    /\ status' = "running"
    /\ failure' = ""
    /\ UNCHANGED <<dirs, frameFiles, inputFiles, listFiles, sparse0, seen>>

Next ==
    \/ ParseArgs
    \/ CheckFfmpeg
    \/ CheckColmap
    \/ SeedRandom
    \/ ValidateInput
    \/ BuildLayout
    \/ ExtractFrames
    \/ CopyImages
    \/ SplitImages
    \/ WriteSplitLists
    \/ FeatureExtraction
    \/ FeatureMatching
    \/ SparseReconstruction
    \/ ModelConversion
    \/ Finish
    \/ NewRun

Spec == Init /\ [][Next]_vars

----------------------------------------------------------------------------
(* split_images called directly, right after random.seed(42), with any     *)
(* ratios, on a directory of images; one call in each behaviour            *)

\* the ratios of a direct call, in tenths: -0.2 .. 1.2
CallRatios == -2..12

ValidRatios(train_ratio, val_ratio) ==
    train_ratio >= 0 /\ val_ratio >= 0 /\ train_ratio + val_ratio <= 10

InitSplit ==
    /\ run = 1
    /\ pc = "call"
    /\ \E t \in CallRatios, v \in CallRatios :
          args = [NoArgs EXCEPT !.train_ratio = t, !.val_ratio = v]
    /\ srcFiles = {}
    /\ rng = "seeded"
    /\ dirs = LayoutDirs
    /\ frameFiles = {}
    /\ \E n \in 0..MaxImages, extra \in SUBSET {NameB, NameC} :
          inputFiles = FramesUpTo(n) \cup extra
    /\ listFiles = [f \in {} |-> <<>>]
    /\ sparse0 = FALSE
    /\ listing = <<>>
    /\ splits = NoSplits
    /\ copied = {}
    /\ log = <<>>
    /\ status = "running"
    /\ failure = ""
    /\ seen = <<>>

\* lines 25-37: split_images(image_dir, train_ratio, val_ratio)
CallSplit ==
    /\ pc = "call"
    /\ split_images(args.train_ratio, args.val_ratio)
    /\ log' = Append(log, <<"split", "ok">>)
    /\ pc' = "returned"
    /\ UNCHANGED <<run, args, srcFiles, dirs, frameFiles, inputFiles, listFiles,
                   sparse0, copied, status, failure>>

NextSplit ==
    \/ CallSplit

SpecSplit == InitSplit /\ [][NextSplit]_vars

----------------------------------------------------------------------------
(* Properties *)

Did(step) == \E k \in 1..Len(log) : log[k][1] = step
Succeeded(step) == \E k \in 1..Len(log) : log[k] = <<step, "ok">>
IsStage(step) == \E i \in 1..Len(Stages) : Stages[i] = step
IsListName(step) == \E i \in 1..Len(ListNames) : ListNames[i] = step
Elems(q) == {q[i] : i \in 1..Len(q)}

\* C1: a reconstruction stage that exits non-zero or cannot be started is the
\* last thing the run does: no later stage is invoked, and the run has ended
\* with the exception of that invocation, which names the stage.
C1_StageFailureHalts ==
    \A k \in 1..Len(log) : \A i \in 1..Len(Stages) :
        (log[k][1] = Stages[i] /\ log[k][2] # "ok") =>
            /\ k = Len(log)
            /\ \A j \in (i+1)..Len(Stages) : ~Did(Stages[j])
            /\ pc = "exited"
            /\ status = (IF log[k][2] = "nonzero" THEN "CalledProcessError"
                         ELSE "FileNotFoundError")
            /\ failure = Stages[i]

C1_Witness ==
    /\ pc = "exited"
    /\ status = "FileNotFoundError"
    /\ failure = "feature_extractor"
    /\ Len(log) > 0
    /\ log[Len(log)] = <<"feature_extractor", "notfound">>

\* C2: with valid ratios the three subsets returned by split_images have n
\* members in all, are pairwise disjoint, and together are exactly the image
\* file names of the directory.
C2_PartitionComplete ==
    (pc = "returned" /\ ValidRatios(args.train_ratio, args.val_ratio)) =>
        LET imgs == {f \in inputFiles : \E e \in ImageExts : EndsWith(Lower(f), e)}
        IN  /\ Len(splits.train) + Len(splits.val) + Len(splits.test)
                 = Cardinality(imgs)
            /\ Elems(splits.train) \cap Elems(splits.val) = {}
            /\ Elems(splits.train) \cap Elems(splits.test) = {}
            /\ Elems(splits.val) \cap Elems(splits.test) = {}
            /\ Elems(splits.train) \cup Elems(splits.val) \cup Elems(splits.test)
                 = imgs

C2_Witness ==
    /\ pc = "returned"
    /\ ValidRatios(args.train_ratio, args.val_ratio)
    /\ {NameB, NameC} \subseteq inputFiles
    /\ splits.train # <<>> /\ splits.val # <<>> /\ splits.test # <<>>

\* C3: model_converter is invoked only after a successful mapper and with
\* sparse/0 present; after a successful mapper that left no sparse/0 the run
\* invokes no conversion, raises nothing and ends successfully.
C3_ConditionalConversion ==
    /\ Did("model_converter") => (Succeeded("mapper") /\ sparse0)
    /\ (Succeeded("mapper") /\ ~sparse0) =>
            /\ ~Did("model_converter")
            /\ failure = ""
            /\ status \in {"running", "done"}
            /\ pc = "exited" => status = "done"

C3_Witness ==
    /\ pc = "exited"
    /\ status = "done"
    /\ Succeeded("mapper")
    /\ ~sparse0
    /\ ~Did("model_converter")

\* C4: once the split lists are written, train_list.txt has
\* floor(n * args.train_ratio) entries and val_list.txt has
\* floor(n * args.val_ratio) entries.
C4_ConfiguredRatiosPersisted ==
    Did("test_list.txt") =>
        /\ LineCount(listFiles["train_list.txt"])
             = (Len(listing) * args.train_ratio) \div 10
        /\ LineCount(listFiles["val_list.txt"])
             = (Len(listing) * args.val_ratio) \div 10

StageLog == SelectSeq(log, LAMBDA e : IsStage(e[1]))

\* C5: the stages invoked in a run are feature_extractor, exhaustive_matcher,
\* mapper, model_converter in this order, each at most once, and each only
\* after its predecessor succeeded.
C5_StageOrder ==
    /\ Len(StageLog) <= Len(Stages)
    /\ \A k \in 1..Len(StageLog) :
        /\ StageLog[k][1] = Stages[k]
        /\ k > 1 => StageLog[k-1][2] = "ok"

C5_Witness ==
    /\ status = "done"
    /\ Len(StageLog) = 4
    /\ StageLog[4] = <<"model_converter", "ok">>

\* the steps of a run other than the dependency probes
Work == SelectSeq(log, LAMBDA e : e[1] \notin {"ffmpeg -version", "colmap -h"})

StepsBeforeStages ==
    IF args.type = "video"
    THEN <<"mkdir", "ffmpeg", "copy", "split",
           "train_list.txt", "val_list.txt", "test_list.txt">>
    ELSE <<"mkdir", "copy", "split",
           "train_list.txt", "val_list.txt", "test_list.txt">>

\* C6: the steps of a run are, in order: the skeleton, frame sampling (video
\* mode only), the collection into input/, the split, the three list files,
\* and only then reconstruction stages.
C6_StepOrder ==
    \A k \in 1..Len(Work) :
        IF k <= Len(StepsBeforeStages)
        THEN Work[k][1] = StepsBeforeStages[k]
        ELSE IsStage(Work[k][1])

C6_Witness ==
    /\ args.type = "video"
    /\ Succeeded("ffmpeg")
    /\ copied # {}
    /\ Did("feature_extractor")

\* C7: with valid ratios, train is the first floor(n*train_ratio) shuffled
\* images, val the next floor(n*val_ratio), test all the rest, whatever the
\* order of the listing; the cut of the ten frames frame_0001..frame_0010
\* with (0.8, 0.1) has 8, 1 and 1 members.
C7_FlooredCutPoints ==
    (pc = "returned" /\ ValidRatios(args.train_ratio, args.val_ratio)) =>
        LET n == Len(listing)
            sh == Shuffled(listing)
            te == (n * args.train_ratio) \div 10
            ve == te + (n * args.val_ratio) \div 10
            ten == Cut(Shuffled([i \in 1..10 |-> FrameName(i)]), 8, 1)
        IN  /\ splits.train = SubSeq(sh, 1, te)
            /\ splits.val = SubSeq(sh, te + 1, ve)
            /\ splits.test = SubSeq(sh, ve + 1, n)
            /\ Len(ten.train) = 8 /\ Len(ten.val) = 1 /\ Len(ten.test) = 1

C7_Witness ==
    /\ pc = "returned"
    /\ Len(listing) = 5
    /\ listing[1] # FrameName(1)
    /\ args.train_ratio = 5 /\ args.val_ratio = 3
    /\ Len(splits.train) = 2 /\ Len(splits.val) = 1 /\ Len(splits.test) = 2

\* C8: from seeding to the shuffle the generator stays in its seeded state,
\* and two runs whose split saw the same listing order returned the same
\* partition.
C8_Deterministic ==
    /\ pc \in {"validate", "layout", "frames", "copy", "split"} => rng = "seeded"
    /\ (Len(seen) = 2 /\ seen[1][1] = seen[2][1] /\ seen[1][2] = seen[2][2]
            /\ seen[1][3] = seen[2][3]) => seen[1][4] = seen[2][4]

C8_Witness ==
    /\ run = 2
    /\ Did("split")
    /\ Len(seen) = 2
    /\ seen[1][1] = seen[2][1]
    /\ Len(seen[1][1]) >= 2
    /\ seen[1][4] = seen[2][4]

\* C9: a frame-sampling invocation that exits non-zero or cannot be started
\* ends the run: nothing is copied into input/, no list file is written, no
\* reconstruction stage is invoked.
C9_SamplerFailureHalts ==
    \A k \in 1..Len(log) :
        (log[k][1] = "ffmpeg" /\ log[k][2] # "ok") =>
            /\ k = Len(log)
            /\ pc = "exited"
            /\ status \in {"CalledProcessError", "FileNotFoundError"}
            /\ failure = "ffmpeg"
            /\ copied = {}
            /\ \A j \in 1..Len(log) :
                  /\ log[j][1] # "copy"
                  /\ ~IsListName(log[j][1])
                  /\ ~IsStage(log[j][1])

C9_Witness ==
    /\ pc = "exited"
    /\ Len(log) > 0
    /\ log[Len(log)] = <<"ffmpeg", "nonzero">>
    /\ frameFiles # {}
    /\ status = "CalledProcessError"

BadInput ==
    \/ args.type = "video" /\ args.input_kind # "file"
    \/ args.type = "photos" /\ args.input_kind # "dir"

\* C10: a run whose input path is missing or of the wrong kind does nothing
\* but the dependency probes and ends in a failure: no directory is created,
\* no tool other than a probe is invoked, nothing is copied or written.
C10_BadInputNoWork ==
    (pc # "parse_args" /\ BadInput) =>
        /\ \A k \in 1..Len(log) : log[k][1] \in {"ffmpeg -version", "colmap -h"}
        /\ copied = {}
        /\ run = 1 => (dirs = {} /\ inputFiles = {} /\ frameFiles = {}
                        /\ DOMAIN listFiles = {})
        /\ pc \in {"dep_ffmpeg", "dep_colmap", "seed", "validate", "exited"}
        /\ pc = "exited" => status \in {"ValueError", "exit1"}

C10_Witness ==
    /\ pc = "exited"
    /\ status = "ValueError"
    /\ args.type = "video"
    /\ args.input_kind = "dir"

\* C11: with --skip_colmap no reconstruction stage is ever invoked, and a run
\* that has written its list files ends successfully with the skeleton, the
\* collected images and the three list files in place.
C11_SkipBypassesStages ==
    (pc # "parse_args" /\ args.skip_colmap) =>
        /\ \A k \in 1..Len(log) : ~IsStage(log[k][1])
        /\ Did("test_list.txt") =>
              /\ pc \in {"ready", "exited"}
              /\ status \in {"running", "done"}
              /\ failure = ""
              /\ {"base", "input", "distorted", "distorted/sparse"} \subseteq dirs
              /\ copied \subseteq inputFiles
              /\ DOMAIN listFiles
                    = {"train_list.txt", "val_list.txt", "test_list.txt"}
        /\ (pc = "exited" /\ Did("test_list.txt")) => status = "done"

C11_Witness ==
    /\ pc = "exited"
    /\ status = "done"
    /\ args.skip_colmap
    /\ copied # {}
    /\ Did("test_list.txt")

\* C12: a layout step on an output directory that already holds the skeleton
\* does not fail and changes neither the directories nor any file; no layout
\* step ever removes a directory or a file.
C12_LayoutIdempotent ==
    [][ pc = "layout" =>
          /\ dirs \subseteq dirs'
          /\ inputFiles' = inputFiles
          /\ frameFiles' = frameFiles
          /\ listFiles' = listFiles
          /\ sparse0' = sparse0
          /\ {"base", "input", "distorted", "distorted/sparse"} \subseteq dirs =>
                /\ dirs' = dirs
                /\ status' = "running"
                /\ failure' = ""
                /\ pc' \in {"frames", "copy"} ]_vars

C12_Witness ==
    /\ run = 2
    /\ pc \in {"frames", "copy"}
    /\ log[Len(log)] = <<"mkdir", "ok">>
    /\ "extracted_frames" \in dirs
    /\ inputFiles # {}
    /\ DOMAIN listFiles # {}
    /\ sparse0

\* C13: the collector copies exactly the direct entries of the source
\* directory whose extension is .png, .jpg or .jpeg in any case, under their
\* own names; of a.jpg, b.PNG, c.txt, d.bmp it copies a.jpg and b.PNG.
C13_CollectorFilter ==
    Did("copy") =>
        LET src == IF args.type = "video" THEN frameFiles ELSE srcFiles
            exts == { <<".","p","n","g">>, <<".","j","p","g">>,
                      <<".","j","p","e","g">> }
            expected == {f \in src :
                            /\ \A i \in 1..Len(f) : f[i] # "/"
                            /\ \E e \in exts :
                                  Len(f) > Len(e) /\ EndsWith(Lower(f), e)}
        IN  /\ copied = expected
            /\ copied \subseteq inputFiles
            /\ run = 1 => inputFiles = expected
            /\ srcFiles = {NameA, NameB, NameC, NameD} => copied = {NameA, NameB}
            /\ srcFiles = {NameA, NameSub, NameSubE} => copied = {NameA}

C13_Witness ==
    /\ Did("copy")
    /\ srcFiles = {NameA, NameB, NameC, NameD}
    /\ copied = {NameA, NameB}
    /\ run = 1
    /\ inputFiles = {NameA, NameB}

\* C14: a call of split_images returns a partition only for ratios that are
\* non-negative and sum to at most 1, so that n - val_end is never negative.
C14_RatiosEnforced ==
    pc = "returned" =>
        /\ args.train_ratio >= 0
        /\ args.val_ratio >= 0
        /\ args.train_ratio + args.val_ratio <= 10
        /\ Len(listing) - ValEnd(Len(listing), args.train_ratio, args.val_ratio) >= 0

\* C15: with no image in input/ the split returns three empty subsets without
\* an error, and each of the three list files is written and is empty.
C15_EmptySet ==
    (Did("split") /\ Len(listing) = 0) =>
        /\ splits.train = <<>> /\ splits.val = <<>> /\ splits.test = <<>>
        /\ failure # "split"
        /\ (\A k \in 1..Len(log) : ~IsStage(log[k][1])) => status \in {"running", "done"}
        /\ pc = "write" \/ Did("test_list.txt")
        /\ Did("test_list.txt") =>
              /\ DOMAIN listFiles = {"train_list.txt", "val_list.txt", "test_list.txt"}
              /\ \A f \in DOMAIN listFiles : Len(listFiles[f]) = 0

C15_Witness ==
    /\ Did("test_list.txt")
    /\ Len(listing) = 0
    /\ srcFiles = {NameC}
    /\ DOMAIN listFiles = {"train_list.txt", "val_list.txt", "test_list.txt"}
    /\ \A f \in DOMAIN listFiles : listFiles[f] = <<>>

\* C16: the step in which a reconstruction stage fails changes no directory,
\* no image and no list file, removes no model the mapper wrote, and ends
\* the run with an error; afterwards the skeleton, the copied images and the
\* three list files as written are still there and the run has not ended
\* successfully.
C16_NoCleanupOnFailure ==
    /\ [][ (pc \in {"feature_extractor", "exhaustive_matcher", "mapper",
                    "model_converter"} /\ pc' = "exited") =>
              /\ dirs' = dirs
              /\ inputFiles' = inputFiles
              /\ frameFiles' = frameFiles
              /\ listFiles' = listFiles
              /\ sparse0 => sparse0'
              /\ status' \in {"CalledProcessError", "FileNotFoundError"} ]_vars
    /\ [] ( (\E k \in 1..Len(log) : IsStage(log[k][1]) /\ log[k][2] # "ok") =>
              /\ pc = "exited"
              /\ status \in {"CalledProcessError", "FileNotFoundError"}
              /\ {"base", "input", "distorted", "distorted/sparse"} \subseteq dirs
              /\ copied \subseteq inputFiles
              /\ DOMAIN listFiles
                    = {"train_list.txt", "val_list.txt", "test_list.txt"}
              /\ listFiles["train_list.txt"] = JoinLines(splits.train)
              /\ listFiles["val_list.txt"] = JoinLines(splits.val)
              /\ listFiles["test_list.txt"] = JoinLines(splits.test) )

C16_Witness ==
    /\ pc = "exited"
    /\ status = "CalledProcessError"
    /\ failure = "mapper"
    /\ copied # {}
    /\ copied \subseteq inputFiles
    /\ DOMAIN listFiles = {"train_list.txt", "val_list.txt", "test_list.txt"}
    /\ listFiles["train_list.txt"] # <<>>

\* the lines of a list file
RECURSIVE SplitLines(_)
SplitLines(c) ==
    IF Len(c) = 0 THEN <<>>
    ELSE IF \A i \in 1..Len(c) : c[i] # "\n" THEN <<c>>
    ELSE LET i == CHOOSE k \in 1..Len(c) :
                    c[k] = "\n" /\ \A j \in 1..(k-1) : c[j] # "\n"
         IN  <<SubSeq(c, 1, i - 1)>> \o SplitLines(SubSeq(c, i + 1, Len(c)))

\* C17: once a run has written its list files, every image file in input/,
\* whichever run copied it, is on exactly one line of exactly one list, and
\* every line names a file in input/.
C17_ListsCoverInput ==
    Did("test_list.txt") =>
        LET lines == SplitLines(listFiles["train_list.txt"])
                     \o SplitLines(listFiles["val_list.txt"])
                     \o SplitLines(listFiles["test_list.txt"])
            imgs == {f \in inputFiles :
                        Lower(Suffix(f)) \in { <<".","p","n","g">>, <<".","j","p","g">>,
                                               <<".","j","p","e","g">> }}
        IN  /\ Len(lines) = Cardinality(imgs)
            /\ Elems(lines) = imgs
            /\ Elems(lines) \subseteq inputFiles

C17_Witness ==
    /\ run = 2
    /\ Did("test_list.txt")
    /\ args.type = "video"
    /\ copied # {}
    /\ NameA \in inputFiles \ copied
    /\ Len(SplitLines(listFiles["train_list.txt"])) = 2
    /\ Len(SplitLines(listFiles["test_list.txt"])) = 1

====
